---- MODULE Spec2Model ----
(***************************************************************************)
(* Cross-sectional time series assembly (data_creator) and the portfolio   *)
(* entry script of trend_following_portfolios.                             *)
(*                                                                         *)
(* A table is a record [names, rows]: names is the sequence of column      *)
(* names, rows a sequence of rows, each row a sequence of cells aligned    *)
(* with names.  A cell of the date column is an integer (a day number in   *)
(* the per-ticker input, milliseconds after the cast to timestamp("ms"));  *)
(* every other cell is <<>> for null or <<v>> for the value v.              *)
(***************************************************************************)
EXTENDS Integers, Sequences, FiniteSets, TLC

\* ------------------------------------------------------------------ bounds
\* Rows summed over all ticker tables of one input mapping.
MaxTotalRows == 3
\* Day numbers of the input tables are 0 .. MaxDate.
MaxDate == 4

\* --------------------------------------------------------------- constants
\* pyarrow.timestamp("ms"): one day of a date column is this many units.
MsPerDay == 86400000

column_date_tag == "m_date"
Signal252 == "c_trend_following_signal_252d"
Signal21 == "c_trend_following_signal_21d"
Investable63 == "c_investable_universe_63d"

Dates == 0 .. MaxDate
TickerNames == <<"AAA", "BBB", "SPY">>

Null == <<>>
None == <<>>
Some(x) == <<x>>

VARIABLES
    start_date,                      \* first day of the closed date range
    end_date,                        \* last day of the closed date range
    time_series_data_dictionary,     \* ticker -> table (the dict's values)
    ticker_order,                    \* the dict's keys in iteration order
    weighted_scoring_features_tuple, \* requested features
    features_dict,                   \* feature -> assembled table (or None)
    result,                          \* the accumulator: None or Some(table)
    feature_index,                   \* position of the outer for loop
    ticker_index,                    \* position of the inner for loop
    pc,                              \* where data_creator is
    delivered,                       \* None, or Some(dict) once returned
    \* the entry script
    main_pc,                         \* where the entry script is
    identifiers,                     \* configuration.identifiers
    csv_files,                       \* Output/<identifier>.csv: identifier -> table
    load_index,                      \* position of the load loop
    output_files,                    \* Output/<feature>.csv: feature -> table
    rebalancing_file,                \* Output/rebalance_signal_SPY.csv: rows <<day, signal>>
    row_index,                       \* position of the weights loop
    stock_weights                    \* stock -> (day -> weight)

\* What data_creator is called with.
input_vars == <<start_date, end_date, time_series_data_dictionary, ticker_order,
                weighted_scoring_features_tuple>>
\* The state of the entry script around the call.
main_vars == <<main_pc, identifiers, csv_files, load_index, output_files,
               rebalancing_file, row_index, stock_weights>>

vars == <<input_vars, features_dict, result, feature_index, ticker_index, pc, delivered,
          main_vars>>

\* ---------------------------------------------------------- table algebra
Range(s) == {s[i] : i \in DOMAIN s}

HasColumn(table, name) == \E i \in DOMAIN table.names : table.names[i] = name

\* table[name] / field lookup by name: the first column so named.
ColumnIndex(names, name) ==
    CHOOSE i \in DOMAIN names :
        /\ names[i] = name
        /\ \A j \in DOMAIN names : names[j] = name => i <= j

Column(table, name) ==
    [r \in DOMAIN table.rows |-> table.rows[r][ColumnIndex(table.names, name)]]

\* len(table): the number of rows.
NumRows(table) == Len(table.rows)

\* pyarrow.compute.cast(date column, timestamp("ms")).
CastTimestampMs(d) == d * MsPerDay

\* Table.set_column(i, name, values); i counts from 1 here, from 0 in pyarrow.
SetColumn(table, i, name, values) ==
    [names |-> [table.names EXCEPT ![i] = name],
     rows |-> [r \in DOMAIN table.rows |-> [table.rows[r] EXCEPT ![i] = values[r]]]]

\* Faulty variant of RangeMask: the upper bound is forgotten.
RangeMaskLowerOnly(table) ==
    [r \in DOMAIN table.rows |->
        Column(table, column_date_tag)[r] >= CastTimestampMs(start_date)]

\* The mask of lines 51-54: start_date <= date <= end_date, both as timestamps.
RangeMask(table) ==
    [r \in DOMAIN table.rows |->
        /\ Column(table, column_date_tag)[r] >= CastTimestampMs(start_date)
        /\ Column(table, column_date_tag)[r] <= CastTimestampMs(end_date)]

RECURSIVE FilterRows(_, _)
FilterRows(rows, mask) ==
    IF rows = <<>> THEN <<>>
    ELSE (IF Head(mask) THEN <<Head(rows)>> ELSE <<>>)
         \o FilterRows(Tail(rows), Tail(mask))

\* Table.filter(mask).
Filter(table, mask) == [table EXCEPT !.rows = FilterRows(table.rows, mask)]

\* Table.select(columns); the caller has checked that the columns exist.
Select(table, columns) ==
    [names |-> columns,
     rows |-> [r \in DOMAIN table.rows |->
                 [j \in DOMAIN columns |->
                     table.rows[r][ColumnIndex(table.names, columns[j])]]]]

\* Table.rename_columns(names).
RenameColumns(table, names) == [table EXCEPT !.names = names]

\* A row without its cell at position k.
DropCell(row, k) == SubSeq(row, 1, k - 1) \o SubSeq(row, k + 1, Len(row))

NullCells(n) == [i \in 1 .. n |-> Null]

RECURSIVE JoinRows(_, _, _, _, _)
JoinRows(lrows, rrows, lk, rk, width) ==
    IF lrows = <<>> THEN <<>>
    ELSE LET l == Head(lrows)
             IsMatch(r) == r[rk] = l[lk]
             matches == SelectSeq(rrows, IsMatch)
         IN  (IF matches = <<>> THEN <<l \o NullCells(width)>>
              ELSE [i \in DOMAIN matches |-> l \o DropCell(matches[i], rk)])
             \o JoinRows(Tail(lrows), rrows, lk, rk, width)

JoinedNames(left, right, keys) ==
    left.names \o DropCell(right.names, ColumnIndex(right.names, keys))

\* Faulty variant of Join: an empty right table is skipped, columns included.
JoinDropsEmptyRight(left, right, keys) ==
    IF right.rows = <<>> THEN left
    ELSE [names |-> JoinedNames(left, right, keys),
          rows |-> JoinRows(left.rows, right.rows,
                            ColumnIndex(left.names, keys),
                            ColumnIndex(right.names, keys),
                            Len(right.names) - 1)]

\* left.join(right, keys=keys, right_suffix='_r'): join_type is not passed, so
\* it is pyarrow's default, "left outer", with the key columns coalesced: every
\* row of left once per matching row of right (once with nulls when none
\* matches), the columns of left followed by the non-key columns of right.
\* right_suffix renames only a right column whose name left also has, which
\* the distinct keys of a dict never produce.
Join(left, right, keys) ==
    [names |-> JoinedNames(left, right, keys),
     rows |-> JoinRows(left.rows, right.rows,
                       ColumnIndex(left.names, keys),
                       ColumnIndex(right.names, keys),
                       Len(right.names) - 1)]

RECURSIVE InsertByKey(_, _, _)
InsertByKey(row, sorted, k) ==
    IF sorted = <<>> THEN <<row>>
    ELSE IF row[k] < Head(sorted)[k] THEN <<row>> \o sorted
    ELSE <<Head(sorted)>> \o InsertByKey(row, Tail(sorted), k)

RECURSIVE SortRows(_, _)
SortRows(rows, k) ==
    IF rows = <<>> THEN <<>>
    ELSE InsertByKey(rows[Len(rows)], SortRows(SubSeq(rows, 1, Len(rows) - 1), k), k)

\* Faulty variant of SortBy: the sort is left out.
SortByNothing(table, key) == table

\* Table.sort_by([(key, "ascending")]): a stable sort on the key column.
SortBy(table, key) ==
    [table EXCEPT !.rows = SortRows(table.rows, ColumnIndex(table.names, key))]


\* ------------------------------------------------- data_creator, per ticker
\* Lines 44-48: the date column (column 0) recast to timestamp("ms").
CastDateColumn(time_series_table) ==
    SetColumn(time_series_table, 1, column_date_tag,
              [r \in DOMAIN time_series_table.rows |->
                  CastTimestampMs(Column(time_series_table, column_date_tag)[r])])

\* Lines 44-55: the ticker's rows inside [start_date, end_date].
FilteredTable(time_series_table) ==
    Filter(CastDateColumn(time_series_table), RangeMask(CastDateColumn(time_series_table)))

\* Line 58: select raises KeyError when the feature is no column of the table.
SelectRaises(time_series_table, feature) == ~HasColumn(time_series_table, feature)

\* Lines 58-59: the (date, feature) projection with the feature named after the ticker.
ProjectedData(time_series_table, ticker, feature) ==
    RenameColumns(Select(FilteredTable(time_series_table), <<column_date_tag, feature>>),
                  <<column_date_tag, ticker>>)

\* Lines 62-79: one step of the accumulation, followed by the sort.
JoinStep(res, data) ==
    SortBy(IF res = None THEN data                     \* combine_chunks keeps the content
           ELSE IF NumRows(res[1]) > NumRows(data)
                THEN Join(res[1], data, column_date_tag)
                ELSE Join(data, res[1], column_date_tag),
           column_date_tag)

\* Lines 40-79 for one feature: the fold of JoinStep over the tickers in
\* iteration order (every table has the feature).
RECURSIVE AssembleFeature(_, _, _, _)
AssembleFeature(res, order, dictionary, feature) ==
    IF order = <<>> THEN res
    ELSE AssembleFeature(
             Some(JoinStep(res, ProjectedData(dictionary[Head(order)], Head(order), feature))),
             Tail(order), dictionary, feature)

\* ---------------------------------------------------------------- inputs
\* Feature cells of row r of the i-th ticker: the signal values are pairwise
\* different over the whole mapping and null on some rows, the investable
\* flag is 0 or 1.
FeatureCell(feature, i, r) ==
    IF feature = Investable63 THEN Some((i + r) % 2)
    ELSE IF (i + r) % 3 = 0 THEN Null
    ELSE Some(10 * i + r + (IF feature = Signal252 THEN 100 ELSE 0))

\* The i-th ticker's table over the day numbers days, with the given columns.
TickerTable(i, days, columns) ==
    [names |-> <<column_date_tag>> \o columns,
     rows |-> [r \in DOMAIN days |->
                 <<days[r]>> \o [j \in DOMAIN columns |-> FeatureCell(columns[j], i, r)]]]

\* All k-tuples of day sequences (unsorted, repeats allowed) with at most
\* budget rows in total. Day 0 and day MaxDate lie outside the range of Init.
RECURSIVE DaySequences(_, _)
DaySequences(k, budget) ==
    IF k = 0 THEN {<<>>}
    ELSE UNION {{<<days>> \o rest : days \in [1 .. n -> Dates],
                                    rest \in DaySequences(k - 1, budget - n)}
                : n \in 0 .. budget}

AllColumns == <<Signal21, Investable63>>

\* Column sets of a mapping of k tickers: complete, or one ticker lacks one feature.
ColumnChoices(k) ==
    {[i \in 1 .. k |-> AllColumns]}
    \cup {[i \in 1 .. k |-> IF i = t THEN <<AllColumns[3 - f]>> ELSE AllColumns]
          : t \in 1 .. k, f \in 1 .. 2}

Complete(columns) == \A i \in DOMAIN columns : columns[i] = AllColumns

Init ==
    /\ \E k \in 0 .. Len(TickerNames) :
       \E columns \in ColumnChoices(k) :
       \E days \in DaySequences(k, IF Complete(columns) THEN MaxTotalRows
                                   ELSE MaxTotalRows - 2) :
          /\ ticker_order = SubSeq(TickerNames, 1, k)
          /\ time_series_data_dictionary =
                [t \in {TickerNames[i] : i \in 1 .. k} |->
                    LET i == ColumnIndex(TickerNames, t)
                    IN  TickerTable(i, days[i], columns[i])]
    /\ start_date = 1
    /\ end_date = MaxDate - 1
    /\ weighted_scoring_features_tuple = AllColumns
    /\ features_dict = [f \in {} |-> None]
    /\ result = None
    /\ feature_index = 1
    /\ ticker_index = 1
    /\ pc = "features"
    /\ delivered = None
    /\ main_pc = "none"
    /\ identifiers = <<>>
    /\ csv_files = [t \in {} |-> None]
    /\ load_index = 1
    /\ output_files = [f \in {} |-> None]
    /\ rebalancing_file = <<>>
    /\ row_index = 1
    /\ stock_weights = [s \in {} |-> None]

\* --------------------------------------------------------------- actions
CurrentFeature == weighted_scoring_features_tuple[feature_index]
CurrentTicker == ticker_order[ticker_index]

\* Faulty variant of FeaturesDone: the return sits inside the loop.
FeaturesDoneEarly(index, features) == index > 1

\* The outer for loop is exhausted.
FeaturesDone(index, features) == index > Len(features)

\* Lines 39-40: the next feature starts with an empty accumulator.
BeginFeature ==
    /\ pc = "features"
    /\ ~FeaturesDone(feature_index, weighted_scoring_features_tuple)
    /\ result' = None
    /\ ticker_index' = 1
    /\ pc' = "tickers"
    /\ UNCHANGED <<input_vars, main_vars, features_dict, feature_index, delivered>>

\* Lines 41-79: one ticker is filtered, projected, joined in and the result sorted.
TickerStep ==
    /\ pc = "tickers"
    /\ ticker_index <= Len(ticker_order)
    /\ ~SelectRaises(time_series_data_dictionary[CurrentTicker], CurrentFeature)
    /\ result' = Some(JoinStep(result,
                               ProjectedData(time_series_data_dictionary[CurrentTicker],
                                             CurrentTicker, CurrentFeature)))
    /\ ticker_index' = ticker_index + 1
    /\ UNCHANGED <<input_vars, main_vars, features_dict, feature_index, pc, delivered>>

\* Line 58: the KeyError of select leaves data_creator; nothing catches it.
TickerKeyError ==
    /\ pc = "tickers"
    /\ ticker_index <= Len(ticker_order)
    /\ SelectRaises(time_series_data_dictionary[CurrentTicker], CurrentFeature)
    /\ pc' = "raised"
    /\ UNCHANGED <<input_vars, main_vars, features_dict, result, feature_index,
                   ticker_index, delivered>>

\* Line 82: the feature's table is stored.
StoreFeature ==
    /\ pc = "tickers"
    /\ ticker_index > Len(ticker_order)
    /\ features_dict' =
          [f \in DOMAIN features_dict \cup {CurrentFeature} |->
              IF f = CurrentFeature THEN result ELSE features_dict[f]]
    /\ feature_index' = feature_index + 1
    /\ pc' = "features"
    /\ UNCHANGED <<input_vars, main_vars, result, ticker_index, delivered>>

\* Line 84: return features_dict.
Return ==
    /\ pc = "features"
    /\ FeaturesDone(feature_index, weighted_scoring_features_tuple)
    /\ delivered' = Some(features_dict)
    /\ pc' = "returned"
    /\ UNCHANGED <<input_vars, main_vars, features_dict, result, feature_index,
                   ticker_index>>

Next ==
    \/ BeginFeature
    \/ TickerStep
    \/ TickerKeyError
    \/ StoreFeature
    \/ Return

Spec == Init /\ [][Next]_vars


\* ------------------------------------------------------- the entry script
window_days == 5
n_top_stocks == 5
\* threshold = 0.025; the signal column is held in thousandths, and so is this.
threshold == 25
target_symbol == "SPY"
signal_column_name == "c_log_difference_high_to_low"
strategy_signals_file_name == Signal21
investable_universe_file_name == Investable63

\* Day numbers of the identifiers' CSV files are 0 .. MaxMainDate.
MaxMainDate == 8
\* The row of a CSV file (if any) whose signal_column_name cell is low is among
\* the first MaxLowRow rows.
MaxLowRow == 2

MainColumns == <<Signal252, Signal21, Investable63>>

\* The signal column of a CSV file: above the threshold except on row low_row,
\* where it is below it (row 1) or missing.
SignalCell(r, low_row) ==
    IF r # low_row THEN Some(30) ELSE IF r = 1 THEN Some(20) ELSE Null

\* Output/<identifier>.csv of the i-th ticker: one row per day of first .. last,
\* the given feature columns and the signal column.
CsvTable(i, first, last, columns, low_row) ==
    LET table == TickerTable(i, [r \in 1 .. (last - first + 1) |-> first + r - 1], columns)
    IN  [names |-> table.names \o <<signal_column_name>>,
         rows |-> [r \in DOMAIN table.rows |-> table.rows[r] \o <<SignalCell(r, low_row)>>]]

Intervals == {<<1, 0>>} \cup {iv \in (0 .. MaxMainDate) \X (0 .. MaxMainDate) : iv[1] <= iv[2]}
ShortIntervals == {iv \in Intervals : iv[2] <= iv[1]}

IdentifierOrders == {<<"SPY">>, <<"SPY", "AAA">>, <<"AAA", "SPY">>}

\* Column sets of the CSV files: complete, or one file lacks one feature.
MainColumnChoices(ids) ==
    {[t \in Range(ids) |-> MainColumns]}
    \cup {[t \in Range(ids) |->
              IF t = u THEN SelectSeq(MainColumns, LAMBDA c : c # MainColumns[f])
              ELSE MainColumns]
          : u \in Range(ids), f \in DOMAIN MainColumns}

InitMain ==
    /\ \E ids \in IdentifierOrders :
       \E columns \in MainColumnChoices(ids) :
       \E days \in [Range(ids) -> IF \A t \in Range(ids) : columns[t] = MainColumns
                                  THEN Intervals ELSE ShortIntervals] :
       \E low_row \in 0 .. MaxLowRow :
          /\ identifiers = ids
          /\ csv_files = [t \in Range(ids) |->
                            CsvTable(ColumnIndex(TickerNames, t), days[t][1], days[t][2],
                                     columns[t], low_row)]
    /\ start_date = 1
    /\ end_date = MaxMainDate - 1
    /\ weighted_scoring_features_tuple = MainColumns
    /\ time_series_data_dictionary = [t \in {} |-> None]
    /\ ticker_order = <<>>
    /\ features_dict = [f \in {} |-> None]
    /\ result = None
    /\ feature_index = 1
    /\ ticker_index = 1
    /\ pc = "idle"
    /\ delivered = None
    /\ main_pc = "load"
    /\ load_index = 1
    /\ output_files = [f \in {} |-> None]
    /\ rebalancing_file = <<>>
    /\ row_index = 1
    /\ stock_weights = [s \in {} |-> None]

\* to_pandas().to_csv() followed by pyarrow.csv.read_csv(): a timestamp at
\* midnight is written as its date and read back as a day number; the other
\* cells and the column names are kept.
CsvRoundTrip(table) ==
    SetColumn(table, ColumnIndex(table.names, column_date_tag), column_date_tag,
              [r \in DOMAIN table.rows |-> Column(table, column_date_tag)[r] \div MsPerDay])

\* Lines 90-105: the next identifier's CSV file joins time_series_data and
\* data_creator is called on everything loaded so far.
LoadData ==
    /\ main_pc = "load"
    /\ load_index <= Len(identifiers)
    /\ LET main_identifier == identifiers[load_index]
       IN  /\ time_series_data_dictionary' =
                 [t \in DOMAIN time_series_data_dictionary \cup {main_identifier} |->
                     IF t = main_identifier THEN csv_files[t]
                     ELSE time_series_data_dictionary[t]]
           /\ ticker_order' =
                 IF main_identifier \in Range(ticker_order) THEN ticker_order
                 ELSE Append(ticker_order, main_identifier)
    /\ features_dict' = [f \in {} |-> None]
    /\ result' = None
    /\ feature_index' = 1
    /\ ticker_index' = 1
    /\ delivered' = None
    /\ pc' = "features"
    /\ main_pc' = "creating"
    /\ UNCHANGED <<start_date, end_date, weighted_scoring_features_tuple, identifiers,
                   csv_files, load_index, output_files, rebalancing_file, row_index,
                   stock_weights>>

\* Lines 107-109: every returned table is written to Output/<feature>.csv.
WriteFeatureFiles ==
    /\ main_pc = "creating"
    /\ pc = "returned"
    /\ output_files' =
          [f \in DOMAIN output_files \cup DOMAIN delivered[1] |->
              IF f \in DOMAIN delivered[1] THEN CsvRoundTrip(delivered[1][f][1])
              ELSE output_files[f]]
    /\ load_index' = load_index + 1
    /\ pc' = "idle"
    /\ main_pc' = "load"
    /\ UNCHANGED <<input_vars, features_dict, result, feature_index, ticker_index,
                   delivered, identifiers, csv_files, rebalancing_file, row_index,
                   stock_weights>>

\* Lines 120-126: the target symbol's rows sorted by date and cut to the range.
\* The dates pass through pandas timestamps and come back as days in the file.
TargetFrame ==
    LET table == SortBy(time_series_data_dictionary[target_symbol], column_date_tag)
        InRange(row) ==
            /\ CastTimestampMs(row[ColumnIndex(table.names, column_date_tag)])
                  >= CastTimestampMs(start_date)
            /\ CastTimestampMs(row[ColumnIndex(table.names, column_date_tag)])
                  <= CastTimestampMs(end_date)
    IN  [table EXCEPT !.rows = SelectSeq(table.rows, InRange)]

\* Line 128: df[signal_column_name].fillna(0).values.
SignalValues(df) ==
    [r \in DOMAIN df.rows |->
        LET cell == Column(df, signal_column_name)[r]
        IN  IF cell = Null THEN 0 ELSE cell[1]]

\* The value of count after row i (rows count from 1 here).
RECURSIVE CountAfter(_, _)
CountAfter(signal_values, i) ==
    IF i = 0 THEN 0
    ELSE IF signal_values[i] > threshold THEN CountAfter(signal_values, i - 1) + 1
    ELSE 0

\* Lines 129-139: the rebalancing flags.
RebalanceSignal(signal_values) ==
    [i \in DOMAIN signal_values |->
        IF CountAfter(signal_values, i) >= window_days /\ i < Len(signal_values)
        THEN 1 ELSE 0]

\* Lines 119-145: the rebalancing file of the target symbol.
CreateRebalancingSignal ==
    /\ main_pc = "load"
    /\ load_index > Len(identifiers)
    /\ target_symbol \in DOMAIN time_series_data_dictionary
    /\ rebalancing_file' =
          [r \in DOMAIN TargetFrame.rows |->
              <<CastTimestampMs(Column(TargetFrame, column_date_tag)[r]) \div MsPerDay,
                RebalanceSignal(SignalValues(TargetFrame))[r]>>]
    /\ main_pc' = "inputs"
    /\ UNCHANGED <<input_vars, features_dict, result, feature_index, ticker_index, pc,
                   delivered, identifiers, csv_files, load_index, output_files,
                   row_index, stock_weights>>

\* Lines 152-158.
investable_universe == output_files[investable_universe_file_name]
strategy_signals == output_files[strategy_signals_file_name]
date_column == Column(strategy_signals, column_date_tag)
stock_columns == SelectSeq(strategy_signals.names, LAMBDA col : col # column_date_tag)

\* Lines 161-165.
rebalancing_dates_filtered ==
    {rebalancing_file[i][1] : i \in {j \in DOMAIN rebalancing_file : rebalancing_file[j][2] = 1}}

\* Lines 168-174 with the lookup of line 183: the stocks flagged 1 on the last
\* row of the investable universe that has the date, none if no row has it.
EligibleStocks(date) ==
    LET rows == {r \in DOMAIN investable_universe.rows :
                    Column(investable_universe, column_date_tag)[r] = date}
    IN  IF rows = {} THEN {}
        ELSE LET last == CHOOSE r \in rows : \A q \in rows : q <= r
             IN  {stock \in Range(stock_columns) :
                     Column(investable_universe, stock)[last] = Some(1)}

\* Lines 147-177: the files are read and stock_weights starts empty.
BuildInputs ==
    /\ main_pc = "inputs"
    /\ stock_weights' = [stock \in Range(stock_columns) |-> [d \in {} |-> <<0, 1>>]]
    /\ row_index' = 1
    /\ main_pc' = "weights"
    /\ UNCHANGED <<input_vars, features_dict, result, feature_index, ticker_index, pc,
                   delivered, identifiers, csv_files, load_index, output_files,
                   rebalancing_file>>

\* Lines 187-192: the eligible stocks with a signal, in column order.
StockSignals(row) ==
    SelectSeq(stock_columns,
              LAMBDA stock : /\ stock \in EligibleStocks(date_column[row])
                             /\ Column(strategy_signals, stock)[row] # Null)

SignalOf(stock, row) == Column(strategy_signals, stock)[row][1]

RECURSIVE InsertDescending(_, _, _)
InsertDescending(stock, sorted, row) ==
    IF sorted = <<>> THEN <<stock>>
    ELSE IF SignalOf(stock, row) > SignalOf(Head(sorted), row) THEN <<stock>> \o sorted
    ELSE <<Head(sorted)>> \o InsertDescending(stock, Tail(sorted), row)

\* Line 195: sorted(..., reverse=True), which keeps equal signals in their order.
RECURSIVE SortedSignals(_, _)
SortedSignals(stocks, row) ==
    IF stocks = <<>> THEN <<>>
    ELSE InsertDescending(stocks[Len(stocks)],
                          SortedSignals(SubSeq(stocks, 1, Len(stocks) - 1), row), row)

\* Line 196.
TopNStocks(row) ==
    LET sorted_signals == SortedSignals(StockSignals(row), row)
    IN  SubSeq(sorted_signals, 1,
               IF Len(sorted_signals) < n_top_stocks THEN Len(sorted_signals)
               ELSE n_top_stocks)

\* Line 197: a weight is a fraction <<numerator, denominator>>.
Weight(row) == IF TopNStocks(row) # <<>> THEN <<1, n_top_stocks>> ELSE <<0, 1>>

IsRebalancingRow(row) ==
    /\ date_column[row] \in rebalancing_dates_filtered
    /\ EligibleStocks(date_column[row]) # {}

\* Lines 178-185: a row that is no rebalancing date, or has no eligible stock.
WeightsSkip ==
    /\ main_pc = "weights"
    /\ row_index <= NumRows(strategy_signals)
    /\ ~IsRebalancingRow(row_index)
    /\ row_index' = row_index + 1
    /\ UNCHANGED <<input_vars, features_dict, result, feature_index, ticker_index, pc,
                   delivered, main_pc, identifiers, csv_files, load_index, output_files,
                   rebalancing_file, stock_weights>>

\* Lines 187-200: the weights of the next row's date.
WeightsWrite ==
    /\ main_pc = "weights"
    /\ row_index <= NumRows(strategy_signals)
    /\ IsRebalancingRow(row_index)
    /\ row_index + 1 <= NumRows(strategy_signals)
    /\ stock_weights' =
          [stock \in DOMAIN stock_weights |->
              [d \in DOMAIN stock_weights[stock] \cup {date_column[row_index + 1]} |->
                  IF d = date_column[row_index + 1]
                  THEN IF stock \in Range(TopNStocks(row_index)) THEN Weight(row_index)
                       ELSE <<0, 1>>
                  ELSE stock_weights[stock][d]]]
    /\ row_index' = row_index + 1
    /\ UNCHANGED <<input_vars, features_dict, result, feature_index, ticker_index, pc,
                   delivered, main_pc, identifiers, csv_files, load_index, output_files,
                   rebalancing_file>>

\* Line 200: date_column[row_index + 1] past the last row raises IndexError.
WeightsIndexError ==
    /\ main_pc = "weights"
    /\ row_index <= NumRows(strategy_signals)
    /\ IsRebalancingRow(row_index)
    /\ row_index + 1 > NumRows(strategy_signals)
    /\ main_pc' = "index_error"
    /\ UNCHANGED <<input_vars, features_dict, result, feature_index, ticker_index, pc,
                   delivered, identifiers, csv_files, load_index, output_files,
                   rebalancing_file, row_index, stock_weights>>

\* Lines 203-208: the portfolio is written.
OutputPortfolio ==
    /\ main_pc = "weights"
    /\ row_index > NumRows(strategy_signals)
    /\ main_pc' = "done"
    /\ UNCHANGED <<input_vars, features_dict, result, feature_index, ticker_index, pc,
                   delivered, identifiers, csv_files, load_index, output_files,
                   rebalancing_file, row_index, stock_weights>>

NextMain ==
    \/ LoadData
    \/ BeginFeature
    \/ TickerStep
    \/ TickerKeyError
    \/ StoreFeature
    \/ Return
    \/ WriteFeatureFiles
    \/ CreateRebalancingSignal
    \/ BuildInputs
    \/ WeightsSkip
    \/ WeightsWrite
    \/ WeightsIndexError
    \/ OutputPortfolio

SpecMain == InitMain /\ [][NextMain]_vars

\* ------------------------------------------------ vocabulary of the claims
Tickers == Range(ticker_order)
Returned == pc = "returned"
Terminated == pc \in {"returned", "raised"}
DeliveredTable(feature) == delivered[1][feature][1]

\* The days of the ticker's input rows that lie in the closed range.
InRangeDays(t) ==
    {d \in Range(Column(time_series_data_dictionary[t], column_date_tag)) :
        start_date <= d /\ d <= end_date}

\* The ticker's input rows of day d.
InputRows(t, d) ==
    LET table == time_series_data_dictionary[t]
    IN  {r \in DOMAIN table.rows : Column(table, column_date_tag)[r] = d}

DateSeq(table) == Column(table, column_date_tag)
DateSet(table) == Range(DateSeq(table))

\* Each row as a map from column name to cell.
RowSet(table) ==
    {[n \in Range(table.names) |-> table.rows[r][ColumnIndex(table.names, n)]]
        : r \in DOMAIN table.rows}

NoRepeatedDay == \A t \in Tickers : \A d \in InRangeDays(t) : Cardinality(InputRows(t, d)) = 1

Ascending(s) == \A i, j \in DOMAIN s : i < j => s[i] <= s[j]
StrictlyAscending(s) == \A i, j \in DOMAIN s : i < j => s[i] < s[j]

IterationOrders(order) ==
    {p \in [DOMAIN order -> Range(order)] : \A i, j \in DOMAIN order : i # j => p[i] # p[j]}

\* The reference of C2: a full outer join and its plain left-to-right fold.
FullOuterJoin(left, right, keys) ==
    LET lk == ColumnIndex(left.names, keys)
        rk == ColumnIndex(right.names, keys)
        IsUnmatched(r) == \A i \in DOMAIN left.rows : left.rows[i][lk] # r[rk]
        unmatched == SelectSeq(right.rows, IsUnmatched)
    IN  [names |-> JoinedNames(left, right, keys),
         rows |-> Join(left, right, keys).rows
                  \o [i \in DOMAIN unmatched |->
                        [j \in DOMAIN left.names |->
                            IF j = lk THEN unmatched[i][rk] ELSE Null]
                        \o DropCell(unmatched[i], rk)]]

RECURSIVE FullOuterFold(_, _, _, _)
FullOuterFold(res, order, dictionary, feature) ==
    IF order = <<>> THEN res
    ELSE LET data == ProjectedData(dictionary[Head(order)], Head(order), feature)
         IN  FullOuterFold(IF res = None THEN Some(data)
                           ELSE Some(FullOuterJoin(res[1], data, column_date_tag)),
                           Tail(order), dictionary, feature)

\* ------------------------------------------------------------------ claims
\* C1: date completeness. Once data_creator has returned for a non-empty
\* mapping, every in-range day of every ticker is a date of every feature's table.
DateCompleteness ==
    (Returned /\ ticker_order # <<>>) =>
        \A f \in DOMAIN delivered[1] : \A t \in Tickers : \A d \in InRangeDays(t) :
            CastTimestampMs(d) \in DateSet(DeliveredTable(f))

\* C2: order independence. The returned table of a feature has the same rows
\* as the assembly over any other iteration order of the same tickers, and the
\* same rows as the plain full-outer-join fold.
OrderIndependence ==
    (Returned /\ ticker_order # <<>>) =>
        \A f \in DOMAIN delivered[1] :
            /\ \A p \in IterationOrders(ticker_order) :
                  RowSet(AssembleFeature(None, p, time_series_data_dictionary, f)[1])
                      = RowSet(DeliveredTable(f))
            /\ RowSet(FullOuterFold(None, ticker_order, time_series_data_dictionary, f)[1])
                  = RowSet(DeliveredTable(f))

NullCorrectness ==
    (Returned /\ ticker_order # <<>>) =>
        \A f \in DOMAIN delivered[1] :
            LET out == DeliveredTable(f)
            IN  \A r \in DOMAIN out.rows : \A t \in Tickers :
                    LET cell == out.rows[r][ColumnIndex(out.names, t)]
                        days == {d \in InRangeDays(t) : CastTimestampMs(d) = DateSeq(out)[r]}
                    IN  IF days = {} THEN cell = Null
                        ELSE \E d \in days : \E i \in InputRows(t, d) :
                                cell = Column(time_series_data_dictionary[t], f)[i]

\* C5: the ticker columns of every returned table are exactly the keys of the
\* mapping, each once.
TickerColumns ==
    (Returned /\ ticker_order # <<>>) =>
        \A f \in DOMAIN delivered[1] :
            LET names == DeliveredTable(f).names
            IN  /\ Len(names) = Len(ticker_order) + 1
                /\ {names[i] : i \in DOMAIN names} \ {column_date_tag} = Tickers
                /\ \A i, j \in DOMAIN names : i # j => names[i] # names[j]

TickerColumnsWitness ==
    /\ Returned
    /\ Len(ticker_order) >= 2
    /\ \E t \in Tickers : InRangeDays(t) = {}
    /\ \E f \in DOMAIN delivered[1] : NumRows(DeliveredTable(f)) >= 1

\* C6: the columns of every returned table are the date column followed by the
\* tickers in the iteration order of the mapping.
ColumnOrder ==
    (Returned /\ ticker_order # <<>>) =>
        \A f \in DOMAIN delivered[1] :
            DeliveredTable(f).names = <<column_date_tag>> \o ticker_order

FeatureAvailable(f) == \A t \in Tickers : HasColumn(time_series_data_dictionary[t], f)

\* C7: per-feature isolation. When data_creator has ended, every requested
\* feature whose column every ticker has is delivered.
FeatureIsolation ==
    Terminated =>
        \A f \in Range(weighted_scoring_features_tuple) :
            FeatureAvailable(f) => (delivered # None /\ f \in DOMAIN delivered[1])

\* C7 as amended: when a requested feature's column is absent from a ticker's
\* table the KeyError leaves data_creator and no feature is delivered, the ones
\* assembled before it included; all requested features are delivered otherwise.
AllOrNothing ==
    Terminated =>
        IF \A f \in Range(weighted_scoring_features_tuple) : FeatureAvailable(f)
        THEN /\ Returned
             /\ DOMAIN delivered[1] = Range(weighted_scoring_features_tuple)
        ELSE /\ pc = "raised"
             /\ delivered = None

AllOrNothingWitness ==
    /\ pc = "raised"
    /\ DOMAIN features_dict # {}
    /\ delivered = None

\* C8: no date fabrication. The accumulator's dates are in-range days of the
\* tickers processed so far, and so are the dates of every returned table.
ProcessedDays(n) ==
    {CastTimestampMs(d) : d \in UNION {InRangeDays(ticker_order[i]) : i \in 1 .. n}}

NoFabrication ==
    /\ result # None => DateSet(result[1]) \subseteq ProcessedDays(ticker_index - 1)
    /\ Returned =>
          \A f \in DOMAIN delivered[1] :
              delivered[1][f] # None =>
                  DateSet(DeliveredTable(f)) \subseteq ProcessedDays(Len(ticker_order))

NoFabricationWitness ==
    /\ pc = "tickers"
    /\ ticker_index = 3
    /\ NumRows(result[1]) >= 1
    /\ \E i \in 1 .. 2 : \E d \in DateSet(time_series_data_dictionary[ticker_order[i]]) :
           d > end_date
    /\ \E i \in 1 .. 2 : \E d \in DateSet(time_series_data_dictionary[ticker_order[i]]) :
           d < start_date


\* C9: the weights loop never reads past the last row. Once the input files
\* are built, every row of strategy_signals that is a rebalancing date with a
\* non-empty investable set has a next row.
WeightsInputsBuilt == main_pc \in {"weights", "index_error", "done"}

NeverReadsPastEnd ==
    WeightsInputsBuilt =>
        \A i \in 1 .. NumRows(strategy_signals) :
            IsRebalancingRow(i) => i + 1 <= NumRows(strategy_signals)

RECURSIVE SumOfWeights(_, _)
SumOfWeights(stocks, day) ==
    IF stocks = <<>> THEN 0
    ELSE LET w == stock_weights[Head(stocks)][day]
         IN  w[1] * (n_top_stocks \div w[2]) + SumOfWeights(Tail(stocks), day)

\* C10: fully invested. On every date for which weights were written with at
\* least one selected stock, the weights of all stocks sum to 1 (here: to
\* n_top_stocks in units of 1 / n_top_stocks).
FullyInvested ==
    WeightsInputsBuilt =>
        \A stock \in DOMAIN stock_weights : \A day \in DOMAIN stock_weights[stock] :
            stock_weights[stock][day][1] > 0 =>
                SumOfWeights(stock_columns, day) = n_top_stocks

====
